---- MODULE Spec2Model ----
(***************************************************************************)
(* Model of the nighthawk test-server filters:                             *)
(*   source/server/http_filter_config_base.cc   (FilterConfigurationBase)  *)
(*   source/server/http_dynamic_delay_filter.h  (dynamic-delay filter)     *)
(*   source/server/http_time_tracking_filter.cc (time-tracking filter)     *)
(***************************************************************************)
EXTENDS Integers, Sequences, FiniteSets, TLC

(***************************************************************************)
(* Bounds of the model.                                                    *)
(***************************************************************************)
\* number of filter instances (requests) that may be created
MaxRequests == 2
\* greatest number of override header values a request carries
MaxHeaders == 2
\* greatest concurrency handed to the linear delay computation
MaxConcurrency == 5

Requests == 1..MaxRequests

\* configuration objects (HttpDynamicDelayDecoderFilterConfig instances)
Configs == {"A", "B"}

(***************************************************************************)
(* nighthawk::server::ResponseOptions, reduced to the fields the filters   *)
(* read.  Durations are in nanoseconds.                                    *)
(***************************************************************************)
NsPerMs == 1000000

NoDelay == [kind |-> "none", static_delay |-> 0, minimal_delay |-> 0,
            concurrency_delay_factor |-> 0]

StaticDelay(d) == [kind |-> "static", static_delay |-> d, minimal_delay |-> 0,
                   concurrency_delay_factor |-> 0]

ConcurrencyBasedLinearDelay(m, f) ==
    [kind |-> "linear", static_delay |-> 0, minimal_delay |-> m,
     concurrency_delay_factor |-> f]

FieldNames == {"response_code", "delay_policy",
               "emit_previous_request_delta_in_response_header"}

ResponseOptions(code, policy, gap) ==
    [response_code |-> code, delay_policy |-> policy,
     emit_previous_request_delta_in_response_header |-> gap]

\* the base configurations a configuration object may be constructed with
Bases ==
    { ResponseOptions(200, NoDelay, ""),
      ResponseOptions(200, NoDelay, "x-gap-ns"),
      ResponseOptions(200, StaticDelay(250 * NsPerMs), "x-gap-ns"),
      ResponseOptions(503, ConcurrencyBasedLinearDelay(0, 1 * NsPerMs), "") }

(***************************************************************************)
(* Values of the x-nighthawk-test-server-config request header.  A value   *)
(* is a text that parses as a JSON object (members: the fields it sets)    *)
(* or does not parse at all.                                               *)
(***************************************************************************)
Json(text, members) == [text |-> text, parses |-> TRUE, members |-> members]

Garbage(text) == [text |-> text, parses |-> FALSE, members |-> [no_such_field |-> 0]]

HeaderValues ==
    { Json("{response_code: 429}", [response_code |-> 429]),
      Json("{emit_previous_request_delta_in_response_header: x-gap-ns}",
           [emit_previous_request_delta_in_response_header |-> "x-gap-ns"]),
      Json("{static_delay: 0.002s, response_code: 404}",
           [delay_policy |-> StaticDelay(2 * NsPerMs), response_code |-> 404]),
      Json("{concurrency_based_linear_delay: {minimal_delay: 0.1s, concurrency_delay_factor: 0.01s}}",
           [delay_policy |-> ConcurrencyBasedLinearDelay(100 * NsPerMs, 10 * NsPerMs)]),
      Json("{static_delay: -0.002s}", [delay_policy |-> StaticDelay(-2 * NsPerMs)]),
      Json("{concurrency_based_linear_delay: {minimal_delay: -0.005s, concurrency_delay_factor: 0.001s}}",
           [delay_policy |-> ConcurrencyBasedLinearDelay(-5 * NsPerMs, 1 * NsPerMs)]),
      Json("{no_such_field: 1}", [no_such_field |-> 1]),
      Garbage("{response_code: ") }

\* the header lists of a request: zero to MaxHeaders values
RECURSIVE SeqsUpTo(_, _)
SeqsUpTo(S, n) ==
    IF n = 0 THEN { <<>> }
    ELSE SeqsUpTo(S, n - 1) \cup
         { Append(s, v) : s \in { t \in SeqsUpTo(S, n - 1) : Len(t) = n - 1 }, v \in S }

HeaderLists == SeqsUpTo(HeaderValues, MaxHeaders)

(***************************************************************************)
(* absl::StatusOr<EffectiveFilterConfigurationPtr>                         *)
(***************************************************************************)
OkStatus(config) == [ok |-> TRUE, value |-> config]

InvalidArgumentError(message) == [ok |-> FALSE, message |-> message]

\* messages are sequences of text pieces, so that one text contains another
\* exactly when its pieces occur in it
Contains(message, piece) == \E i \in 1..Len(message) : message[i] = piece

(***************************************************************************)
(* Configuration::mergeJsonConfig(json, config, error_message)             *)
(* parse the text, merge the fields it sets onto config, validate.         *)
(***************************************************************************)
\* the validation of the delay durations: none of them is negative
ValidDelayPolicy(policy) ==
    /\ policy.static_delay >= 0
    /\ policy.minimal_delay >= 0
    /\ policy.concurrency_delay_factor >= 0

\* the fields of config replaced by the members the text sets
MergeFrom(json, config) ==
    [f \in FieldNames |-> IF f \in DOMAIN json.members THEN json.members[f] ELSE config[f]]

\* variant: the merged configuration is not validated
mergeJsonConfig_unvalidated(json, config) ==
    IF ~json.parses
    THEN [merged |-> FALSE, config |-> config,
          error_message |-> <<"Error merging json config: ", "Unable to parse JSON ", json.text>>]
    ELSE IF ~(DOMAIN json.members \subseteq FieldNames)
    THEN [merged |-> FALSE, config |-> config,
          error_message |-> <<"Error merging json config: ", "Unknown field ", json.text>>]
    ELSE [merged |-> TRUE, config |-> MergeFrom(json, config), error_message |-> <<>>]

mergeJsonConfig(json, config) ==
    IF ~json.parses
    THEN [merged |-> FALSE, config |-> config,
          error_message |-> <<"Error merging json config: ", "Unable to parse JSON ", json.text>>]
    ELSE IF ~(DOMAIN json.members \subseteq FieldNames)
    THEN [merged |-> FALSE, config |-> config,
          error_message |-> <<"Error merging json config: ", "Unknown field ", json.text>>]
    ELSE IF ~ValidDelayPolicy(MergeFrom(json, config).delay_policy)
    THEN [merged |-> FALSE, config |-> config,
          error_message |-> <<"Error merging json config: ",
                              "Proto constraint validation failed ", json.text>>]
    ELSE [merged |-> TRUE, config |-> MergeFrom(json, config), error_message |-> <<>>]

(***************************************************************************)
(* FilterConfigurationBase::computeEffectiveConfiguration(headers)         *)
(***************************************************************************)
MultipleHeadersMessage ==
    <<"Received multiple configuration headers in the request, ", "expected only one", ".">>

\* variant: duplicate headers are resolved by taking the first value
computeEffectiveConfiguration_first_wins(base, request_config_header) ==
    IF Len(request_config_header) >= 1
    THEN LET merge == mergeJsonConfig(request_config_header[1], base)
         IN  IF merge.merged
             THEN OkStatus(merge.config)
             ELSE InvalidArgumentError(merge.error_message)
    ELSE OkStatus(base)

\* variant: without an override a default-constructed ResponseOptions is returned
computeEffectiveConfiguration_default(base, request_config_header) ==
    IF Len(request_config_header) = 1
    THEN LET merge == mergeJsonConfig(request_config_header[1], base)
         IN  IF merge.merged
             THEN OkStatus(merge.config)
             ELSE InvalidArgumentError(merge.error_message)
    ELSE IF Len(request_config_header) > 1
    THEN InvalidArgumentError(MultipleHeadersMessage)
    ELSE OkStatus(ResponseOptions(200, NoDelay, ""))

\* variant: the merged copy is dropped and server_config_ returned
computeEffectiveConfiguration_unmerged(base, request_config_header) ==
    IF Len(request_config_header) = 1
    THEN LET merge == mergeJsonConfig(request_config_header[1], base)
         IN  IF merge.merged
             THEN OkStatus(base)
             ELSE InvalidArgumentError(merge.error_message)
    ELSE IF Len(request_config_header) > 1
    THEN InvalidArgumentError(MultipleHeadersMessage)
    ELSE OkStatus(base)

\* variant: a failed merge falls through to server_config_
computeEffectiveConfiguration_fallback(base, request_config_header) ==
    IF Len(request_config_header) = 1
    THEN LET merge == mergeJsonConfig(request_config_header[1], base)
         IN  IF merge.merged
             THEN OkStatus(merge.config)
             ELSE OkStatus(base)
    ELSE IF Len(request_config_header) > 1
    THEN InvalidArgumentError(MultipleHeadersMessage)
    ELSE OkStatus(base)

\* variant: every failure falls through to server_config_
computeEffectiveConfiguration_lenient(base, request_config_header) ==
    IF Len(request_config_header) = 1
    THEN LET merge == mergeJsonConfig(request_config_header[1], base)
         IN  IF merge.merged
             THEN OkStatus(merge.config)
             ELSE OkStatus(base)
    ELSE OkStatus(base)

computeEffectiveConfiguration(base, request_config_header) ==
    IF Len(request_config_header) = 1
    THEN LET merge == mergeJsonConfig(request_config_header[1], base)
         IN  IF merge.merged
             THEN OkStatus(merge.config)
             ELSE InvalidArgumentError(merge.error_message)
    ELSE IF Len(request_config_header) > 1
    THEN InvalidArgumentError(MultipleHeadersMessage)
    ELSE OkStatus(base)

\* variant: the override is merged into *server_config_ itself
computeEffectiveConfiguration_server_config_in_place(base, request_config_header) ==
    IF Len(request_config_header) = 1
    THEN mergeJsonConfig(request_config_header[1], base).config
    ELSE base

\* *server_config_ after the call: the override is merged onto a copy
\* (response_options), the configuration of the object is left as it is
computeEffectiveConfiguration_server_config(base, request_config_header) == base

(***************************************************************************)
(* FilterConfigurationBase::validateOrSendError(effective_config, cb)      *)
(* returns the value of the call and the local replies after it.           *)
(***************************************************************************)
LocalReply(filter_name, message) ==
    [code |-> 500, body |-> <<filter_name, " didn't understand the request: ">> \o message]

\* variant: the reply is sent but the caller is told to go on
validateOrSendError_no_stop(filter_name, effective_config, replies) ==
    IF ~effective_config.ok
    THEN [sent |-> FALSE,
          replies |-> Append(replies, LocalReply(filter_name, effective_config.message))]
    ELSE [sent |-> FALSE, replies |-> replies]

validateOrSendError(filter_name, effective_config, replies) ==
    IF ~effective_config.ok
    THEN [sent |-> TRUE,
          replies |-> Append(replies, LocalReply(filter_name, effective_config.message))]
    ELSE [sent |-> FALSE, replies |-> replies]

(***************************************************************************)
(* HttpDynamicDelayDecoderFilterConfig: the active filter instance count.  *)
(* instances() is a static member function holding a function-local        *)
(* std::atomic<uint64_t>; ++ and -- on it are single atomic                *)
(* read-modify-writes.  The model keeps the wrap-around of the unsigned    *)
(* counter at CounterBits bits.                                            *)
(***************************************************************************)
CounterBits == 30

CounterModulus == 2 ^ CounterBits

\* the storage the call instances() made through a configuration object reaches
Cells == {"static"} \cup Configs

\* variant: the counter is a member of the configuration object
instances_cell_member(config) == config

instances_cell(config) == "static"

\* variant: the increment is lost
incrementFilterInstanceCount_lost(count) == count

incrementFilterInstanceCount(count) == (count + 1) % CounterModulus

\* variant: the decrement is missing
decrementFilterInstanceCount_missing(count) == count

decrementFilterInstanceCount(count) == (count - 1) % CounterModulus

\* variant: the reader leaves its own filter instance out of the count
approximateFilterInstances_excluding_self(counters, config) ==
    counters[instances_cell(config)] - 1

approximateFilterInstances(counters, config) == counters[instances_cell(config)]

(***************************************************************************)
(* HttpDynamicDelayDecoderFilter: the delay computation.                   *)
(***************************************************************************)
\* std::round of numerator / denominator: to nearest, ties away from zero.
\* The quotient of two doubles is exact enough for every nanosecond count
\* of the model (below 2^31), so the rounding is the one of the exact quotient.
Round(numerator, denominator) ==
    IF numerator >= 0
    THEN (2 * numerator + denominator) \div (2 * denominator)
    ELSE -((2 * (-numerator) + denominator) \div (2 * denominator))

\* variant: the quotient is truncated instead of rounded
computeConcurrencyBasedLinearDelayMs_truncating(concurrency, minimal_delay, delay_factor) ==
    LET ns == minimal_delay + (concurrency * delay_factor)
    IN  IF ns >= 0 THEN ns \div NsPerMs ELSE -((-ns) \div NsPerMs)

computeConcurrencyBasedLinearDelayMs(concurrency, minimal_delay, delay_factor) ==
    Round(minimal_delay + (concurrency * delay_factor), NsPerMs)

\* absl::optional<int64_t>: <<>> is "not set"
Nullopt == <<>>

Optional(value) == <<value>>

has_value(optional) == Len(optional) = 1

\* TimeUtil::DurationToMilliseconds: integer division truncating toward zero
DurationToMilliseconds(duration) ==
    IF duration >= 0 THEN duration \div NsPerMs ELSE -((-duration) \div NsPerMs)

\* variant: the static delay grows with the number of active requests
computeDelayMs_concurrent(response_options, concurrency) ==
    LET policy == response_options.delay_policy
    IN  IF policy.kind = "static"
        THEN Optional(DurationToMilliseconds(policy.static_delay * (1 + concurrency)))
        ELSE IF policy.kind = "linear"
        THEN Optional(computeConcurrencyBasedLinearDelayMs(
                          concurrency, policy.minimal_delay, policy.concurrency_delay_factor))
        ELSE Nullopt

computeDelayMs(response_options, concurrency) ==
    LET policy == response_options.delay_policy
    IN  IF policy.kind = "static"
        THEN Optional(DurationToMilliseconds(policy.static_delay))
        ELSE IF policy.kind = "linear"
        THEN Optional(computeConcurrencyBasedLinearDelayMs(
                          concurrency, policy.minimal_delay, policy.concurrency_delay_factor))
        ELSE Nullopt

\* variant: a delay of zero is handed to the fault filter as well
maybeRequestFaultFilterDelay_zero(delay_ms, fault_delay_request) ==
    IF has_value(delay_ms) /\ delay_ms[1] >= 0
    THEN Optional(delay_ms[1])
    ELSE fault_delay_request

\* the value of the x-envoy-fault-delay-request request header after the call
maybeRequestFaultFilterDelay(delay_ms, fault_delay_request) ==
    IF has_value(delay_ms) /\ delay_ms[1] > 0
    THEN Optional(delay_ms[1])
    ELSE fault_delay_request

(***************************************************************************)
(* State.                                                                  *)
(***************************************************************************)
VARIABLES
    server_config_,      \* FilterConfigurationBase::server_config_ of each configuration object
    instances,           \* the atomic counter(s) behind instances()
    delay_filters,       \* the HttpDynamicDelayDecoderFilter of each request
    tracking_filters,    \* the HttpTimeTrackingFilter of each request
    resolve_call,        \* one call of computeEffectiveConfiguration
    delay_call,          \* one call of computeConcurrencyBasedLinearDelayMs
    now,                 \* the monotonic clock of the time source, in nanoseconds
    stopwatch_,          \* HttpTimeTrackingFilterConfig::stopwatch_
    stopwatch_calls,     \* the calls of getElapsedNanosSinceLastRequest made so far
    fault_call           \* one call of computeDelayMs and maybeRequestFaultFilterDelay

vars == <<server_config_, instances, delay_filters, tracking_filters, resolve_call, delay_call,
          now, stopwatch_, stopwatch_calls, fault_call>>

\* a default-constructed absl::StatusOr holds an error (kUnknown, no message)
UnknownError == [ok |-> FALSE, message |-> <<>>]

\* the override header lists the requests of the filter life cycle carry
RequestHeaderLists ==
    { <<>>,
      <<Json("{response_code: 429}", [response_code |-> 429])>>,
      <<Json("{static_delay: -0.002s}", [delay_policy |-> StaticDelay(-2 * NsPerMs)])>>,
      <<Json("{concurrency_based_linear_delay: {minimal_delay: -0.005s, concurrency_delay_factor: 0.001s}}",
             [delay_policy |-> ConcurrencyBasedLinearDelay(-5 * NsPerMs, 1 * NsPerMs)])>>,
      <<Json("{response_code: 429}", [response_code |-> 429]), Garbage("{response_code: ")>> }

NoDelayFilter ==
    [pc |-> "unborn", config_ |-> "A", effective_config_ |-> UnknownError,
     destroyed_ |-> FALSE, headers |-> <<>>, computed |-> FALSE, delay_ms |-> Nullopt,
     fault_delay_request |-> Nullopt, replies |-> <<>>, status |-> "none"]

NoTrackingFilter ==
    [pc |-> "constructed", effective_config_ |-> UnknownError, headers |-> <<>>,
     replies |-> <<>>, status |-> "none", validated |-> FALSE, sent |-> FALSE,
     last_request_delta_ns_ |-> 0, encoded |-> FALSE, response_headers |-> <<>>]

IdleResolve == [pc |-> "idle", base |-> ResponseOptions(200, NoDelay, ""),
                headers |-> <<>>, result |-> <<>>]

IdleDelay == [pc |-> "idle", concurrency |-> 0, minimal_delay |-> 0, delay_factor |-> 0,
              result |-> <<>>]

DynamicDelayName == "dynamic-delay"

TimeTrackingName == "time-tracking"

\* the configuration object of the time-tracking filters
TrackingConfig == "T"

(***************************************************************************)
(* The time source and the stopwatch of the time-tracking configuration.   *)
(***************************************************************************)
\* the clock advances in steps of TickNs, at most MaxTicks times
TickNs == 5000000

MaxTicks == 2

\* greatest number of calls made on the stopwatch alone
MaxCalls == 3

Callers == 1..MaxCalls

\* ThreadSafeMontonicTimeStopwatch before its first use: no start time
NewStopwatch == [start_ |-> <<>>]

\* ThreadSafeMontonicTimeStopwatch::getElapsedNsAndReset(time_source), one
\* atomic step: the time is read, the elapsed time since start_ computed (0
\* when there is no start_ yet) and the time stored as the new start_, marked
\* with the caller that stored it.
getElapsedNsAndReset(stopwatch, caller, time) ==
    [elapsed |-> IF stopwatch.start_ = <<>> THEN 0 ELSE time - stopwatch.start_[1].time,
     stopwatch |-> [start_ |-> << [time |-> time, by |-> caller] >>]]

\* variant: the stopwatch is handed over by value, the reset is lost
getElapsedNanosSinceLastRequest_no_reset(stopwatch, caller, time) ==
    [elapsed |-> getElapsedNsAndReset(stopwatch, caller, time).elapsed,
     stopwatch |-> stopwatch]

\* variant: the elapsed time is returned in milliseconds
getElapsedNanosSinceLastRequest_millis(stopwatch, caller, time) ==
    [elapsed |-> getElapsedNsAndReset(stopwatch, caller, time).elapsed \div NsPerMs,
     stopwatch |-> getElapsedNsAndReset(stopwatch, caller, time).stopwatch]

\* HttpTimeTrackingFilterConfig::getElapsedNanosSinceLastRequest(time_source)
getElapsedNanosSinceLastRequest(stopwatch, caller, time) ==
    getElapsedNsAndReset(stopwatch, caller, time)

\* the record kept of one call: who called, when, the start_ it found and
\* the elapsed time it got
StopwatchCall(caller, time, stopwatch, elapsed) ==
    [caller |-> caller, time |-> time, previous |-> stopwatch.start_, elapsed |-> elapsed]

IdleFault == [pc |-> "idle", policy |-> NoDelay, concurrency |-> 0, delay_ms |-> <<>>,
              before |-> <<>>, after |-> <<>>]

InitClock ==
    /\ now = 0
    /\ stopwatch_ = NewStopwatch
    /\ stopwatch_calls = <<>>
    /\ fault_call = IdleFault

\* greatest number of clock steps during the life of the time-tracking filters
MaxGapTicks == 1

\* the monotonic clock advances, at most max_ticks times
TickUpTo(max_ticks) ==
    /\ now < max_ticks * TickNs
    /\ now' = now + TickNs
    /\ UNCHANGED <<server_config_, instances, delay_filters, tracking_filters, resolve_call,
                   delay_call, stopwatch_, stopwatch_calls, fault_call>>

Tick == TickUpTo(MaxTicks)

\* a thread calls getElapsedNanosSinceLastRequest on the shared configuration
CallGetElapsedNanosSinceLastRequest(caller) ==
    LET call == getElapsedNanosSinceLastRequest(stopwatch_, caller, now)
    IN  /\ \A i \in 1..Len(stopwatch_calls) : stopwatch_calls[i].caller # caller
        /\ stopwatch_' = call.stopwatch
        /\ stopwatch_calls' =
               Append(stopwatch_calls, StopwatchCall(caller, now, stopwatch_, call.elapsed))
        /\ UNCHANGED <<server_config_, instances, delay_filters, tracking_filters, resolve_call,
                       delay_call, now, fault_call>>

NextStopwatch ==
    \/ Tick
    \/ \E caller \in Callers : CallGetElapsedNanosSinceLastRequest(caller)

InitStopwatch ==
    /\ server_config_ = [c \in Configs \cup {TrackingConfig} |->
                            ResponseOptions(200, NoDelay, "x-gap-ns")]
    /\ instances = [cell \in Cells |-> 0]
    /\ delay_filters = [r \in Requests |-> NoDelayFilter]
    /\ tracking_filters = [r \in Requests |-> NoTrackingFilter]
    /\ resolve_call = IdleResolve
    /\ delay_call = IdleDelay
    /\ InitClock

SpecStopwatch == InitStopwatch /\ [][NextStopwatch]_vars

(***************************************************************************)
(* Life cycle of the dynamic-delay filter, one filter per request.         *)
(***************************************************************************)
\* the configurations the configuration objects are constructed with
InitialServerConfig ==
    [c \in Configs \cup {TrackingConfig} |->
        IF c = "A" THEN ResponseOptions(503, ConcurrencyBasedLinearDelay(0, 1 * NsPerMs), "")
        ELSE ResponseOptions(200, StaticDelay(250 * NsPerMs), "x-gap-ns")]

InitFilters ==
    /\ server_config_ = InitialServerConfig
    /\ instances = [cell \in Cells |-> 0]
    /\ delay_filters = [r \in Requests |-> NoDelayFilter]
    /\ tracking_filters = [r \in Requests |-> NoTrackingFilter]
    /\ resolve_call = IdleResolve
    /\ delay_call = IdleDelay
    /\ InitClock

\* HttpDynamicDelayDecoderFilter::HttpDynamicDelayDecoderFilter(config)
Constructor(r, config) ==
    /\ delay_filters[r].pc = "unborn"
    /\ instances' = [instances EXCEPT ![instances_cell(config)] =
                         incrementFilterInstanceCount(@)]
    /\ delay_filters' = [delay_filters EXCEPT ![r].pc = "constructed", ![r].config_ = config]
    /\ UNCHANGED <<server_config_, tracking_filters, resolve_call, delay_call,
                     now, stopwatch_, stopwatch_calls, fault_call>>

\* HttpDynamicDelayDecoderFilter::decodeHeaders(headers, end_stream)
DelayDecodeHeaders(r, headers, end_stream) ==
    LET f == delay_filters[r]
        effective == computeEffectiveConfiguration(server_config_[f.config_], headers)
        validation == IF end_stream
                      THEN validateOrSendError(DynamicDelayName, effective, f.replies)
                      ELSE [sent |-> FALSE, replies |-> f.replies]
        delay_ms == computeDelayMs(effective.value,
                                   approximateFilterInstances(instances, f.config_))
    IN  /\ f.pc = "constructed"
        /\ delay_filters' =
             [delay_filters EXCEPT ![r] =
                IF validation.sent
                THEN [f EXCEPT !.pc = "complete", !.headers = headers,
                               !.effective_config_ = effective,
                               !.replies = validation.replies,
                               !.status = "StopIteration"]
                ELSE IF effective.ok
                THEN [f EXCEPT !.pc = IF end_stream THEN "complete" ELSE "headers",
                               !.headers = headers,
                               !.effective_config_ = effective,
                               !.computed = TRUE,
                               !.delay_ms = delay_ms,
                               !.fault_delay_request =
                                   maybeRequestFaultFilterDelay(delay_ms, f.fault_delay_request),
                               !.status = "Continue"]
                ELSE [f EXCEPT !.pc = "headers", !.headers = headers,
                               !.effective_config_ = effective,
                               !.status = "Continue"]]
        /\ server_config_' =
             [server_config_ EXCEPT ![f.config_] =
                computeEffectiveConfiguration_server_config(@, headers)]
        /\ UNCHANGED <<instances, tracking_filters, resolve_call, delay_call,
                     now, stopwatch_, stopwatch_calls, fault_call>>

\* HttpDynamicDelayDecoderFilter::decodeData(buffer, end_stream)
DelayDecodeData(r, end_stream) ==
    LET f == delay_filters[r]
        validation == validateOrSendError(DynamicDelayName, f.effective_config_, f.replies)
    IN  /\ f.pc = "headers"
        /\ delay_filters' =
             [delay_filters EXCEPT ![r] =
                IF ~f.effective_config_.ok /\ end_stream
                THEN [f EXCEPT !.pc = "complete", !.replies = validation.replies,
                               !.status = "StopIterationNoBuffer"]
                ELSE [f EXCEPT !.pc = IF end_stream THEN "complete" ELSE "headers",
                               !.status = "Continue"]]
        /\ UNCHANGED <<server_config_, instances, tracking_filters, resolve_call, delay_call,
                     now, stopwatch_, stopwatch_calls, fault_call>>

\* HttpDynamicDelayDecoderFilter::onDestroy(): the stream ends, normally or not
onDestroy(r) ==
    LET f == delay_filters[r]
    IN  /\ f.pc \in {"constructed", "headers", "complete"}
        /\ instances' = [instances EXCEPT ![instances_cell(f.config_)] =
                             decrementFilterInstanceCount(@)]
        /\ delay_filters' = [delay_filters EXCEPT ![r].pc = "destroyed",
                                                  ![r].destroyed_ = TRUE]
        /\ UNCHANGED <<server_config_, tracking_filters, resolve_call, delay_call,
                     now, stopwatch_, stopwatch_calls, fault_call>>

Next ==
    \/ \E r \in Requests, config \in Configs :
           \* the requests are numbered in the order their filters are constructed
           /\ \A earlier \in 1..(r - 1) : delay_filters[earlier].pc # "unborn"
           /\ Constructor(r, config)
    \/ \E r \in Requests, headers \in RequestHeaderLists, end_stream \in BOOLEAN :
           DelayDecodeHeaders(r, headers, end_stream)
    \/ \E r \in Requests, end_stream \in BOOLEAN : DelayDecodeData(r, end_stream)
    \/ \E r \in Requests : onDestroy(r)

Spec == InitFilters /\ [][Next]_vars

(***************************************************************************)
(* Requests without body arriving at one configuration object whose delay  *)
(* grows by 1ms with each active request.                                  *)
(***************************************************************************)
\* number of requests that arrive
MaxArrivals == 4

Arrivals == 1..MaxArrivals

InitConcurrency ==
    /\ server_config_ = InitialServerConfig
    /\ instances = [cell \in Cells |-> 0]
    /\ delay_filters = [r \in Arrivals |-> NoDelayFilter]
    /\ tracking_filters = [r \in Requests |-> NoTrackingFilter]
    /\ resolve_call = IdleResolve
    /\ delay_call = IdleDelay
    /\ InitClock

NextConcurrency ==
    \/ \E r \in Arrivals : Constructor(r, "A")
    \/ \E r \in Arrivals : DelayDecodeHeaders(r, <<>>, TRUE)
    \/ \E r \in Arrivals : onDestroy(r)

SpecConcurrency == InitConcurrency /\ [][NextConcurrency]_vars

(***************************************************************************)
(* The time-tracking filter, one filter per request.                       *)
(***************************************************************************)
InitTracking ==
    /\ \E base \in { b \in Bases : b.delay_policy = NoDelay } :
         server_config_ = [c \in Configs \cup {TrackingConfig} |-> base]
    /\ instances = [cell \in Cells |-> 0]
    /\ delay_filters = [r \in Requests |-> NoDelayFilter]
    /\ tracking_filters = [r \in Requests |-> NoTrackingFilter]
    /\ resolve_call = IdleResolve
    /\ delay_call = IdleDelay
    /\ InitClock

\* the override header lists of the requests to the time-tracking filter
TrackingHeaderLists ==
    { h \in RequestHeaderLists : Len(h) # 1 } \cup
    { << Garbage("{response_code: ") >>,
      << Json("{emit_previous_request_delta_in_response_header: X-Gap-Ns}",
              [emit_previous_request_delta_in_response_header |-> "X-Gap-Ns"]) >> }

\* HttpTimeTrackingFilter::setDecoderFilterCallbacks(callbacks), without
\* keeping the measured value
setDecoderFilterCallbacks_dropped(r) ==
    LET f == tracking_filters[r]
        call == getElapsedNanosSinceLastRequest(stopwatch_, r, now)
    IN  /\ f.pc = "constructed"
        /\ stopwatch_' = call.stopwatch
        /\ stopwatch_calls' =
               Append(stopwatch_calls, StopwatchCall(r, now, stopwatch_, call.elapsed))
        /\ tracking_filters' = [tracking_filters EXCEPT ![r].pc = "ready"]
        /\ UNCHANGED <<server_config_, instances, delay_filters, resolve_call, delay_call,
                       now, fault_call>>

\* HttpTimeTrackingFilter::setDecoderFilterCallbacks(callbacks)
setDecoderFilterCallbacks(r) ==
    LET f == tracking_filters[r]
        call == getElapsedNanosSinceLastRequest(stopwatch_, r, now)
    IN  /\ f.pc = "constructed"
        /\ stopwatch_' = call.stopwatch
        /\ stopwatch_calls' =
               Append(stopwatch_calls, StopwatchCall(r, now, stopwatch_, call.elapsed))
        /\ tracking_filters' = [tracking_filters EXCEPT ![r].pc = "ready",
                                                        ![r].last_request_delta_ns_ = call.elapsed]
        /\ UNCHANGED <<server_config_, instances, delay_filters, resolve_call, delay_call,
                       now, fault_call>>

\* HttpTimeTrackingFilter::decodeHeaders(headers, end_stream), validating at
\* once instead of at the end of the stream
TrackingDecodeHeaders_eager(r, headers, end_stream) ==
    LET f == tracking_filters[r]
        effective == computeEffectiveConfiguration(server_config_[TrackingConfig], headers)
        validation == validateOrSendError(TimeTrackingName, effective, f.replies)
    IN  /\ f.pc = "ready"
        /\ ~f.encoded
        /\ tracking_filters' =
             [tracking_filters EXCEPT ![r] =
                [f EXCEPT !.pc = IF end_stream THEN "complete" ELSE "headers",
                          !.headers = headers,
                          !.effective_config_ = effective,
                          !.validated = TRUE,
                          !.sent = validation.sent,
                          !.replies = validation.replies,
                          !.status = IF validation.sent THEN "StopIteration" ELSE "Continue"]]
        /\ server_config_' =
             [server_config_ EXCEPT ![TrackingConfig] =
                computeEffectiveConfiguration_server_config(@, headers)]
        /\ UNCHANGED <<instances, delay_filters, resolve_call, delay_call,
                       now, stopwatch_, stopwatch_calls, fault_call>>

\* HttpTimeTrackingFilter::decodeHeaders(headers, end_stream)
TrackingDecodeHeaders(r, headers, end_stream) ==
    LET f == tracking_filters[r]
        effective == computeEffectiveConfiguration(server_config_[TrackingConfig], headers)
        validation == IF end_stream
                      THEN validateOrSendError(TimeTrackingName, effective, f.replies)
                      ELSE [sent |-> FALSE, replies |-> f.replies]
    IN  /\ f.pc = "ready"
        /\ ~f.encoded
        /\ tracking_filters' =
             [tracking_filters EXCEPT ![r] =
                [f EXCEPT !.pc = IF end_stream THEN "complete" ELSE "headers",
                          !.headers = headers,
                          !.effective_config_ = effective,
                          !.validated = end_stream,
                          !.sent = validation.sent,
                          !.replies = validation.replies,
                          !.status = IF validation.sent THEN "StopIteration" ELSE "Continue"]]
        /\ server_config_' =
             [server_config_ EXCEPT ![TrackingConfig] =
                computeEffectiveConfiguration_server_config(@, headers)]
        /\ UNCHANGED <<instances, delay_filters, resolve_call, delay_call,
                     now, stopwatch_, stopwatch_calls, fault_call>>

\* HttpTimeTrackingFilter::decodeData(buffer, end_stream)
TrackingDecodeData(r, end_stream) ==
    LET f == tracking_filters[r]
        validation == IF end_stream
                      THEN validateOrSendError(TimeTrackingName, f.effective_config_, f.replies)
                      ELSE [sent |-> FALSE, replies |-> f.replies]
    IN  /\ f.pc = "headers"
        /\ tracking_filters' =
             [tracking_filters EXCEPT ![r] =
                [f EXCEPT !.pc = IF end_stream THEN "complete" ELSE "headers",
                          !.validated = end_stream,
                          !.sent = validation.sent,
                          !.replies = validation.replies,
                          !.status = IF validation.sent THEN "StopIterationNoBuffer"
                                     ELSE "Continue"]]
        /\ UNCHANGED <<server_config_, instances, delay_filters, resolve_call, delay_call,
                     now, stopwatch_, stopwatch_calls, fault_call>>

\* Envoy::Http::LowerCaseString, on the header names of the model
LowerCaseString(name) == IF name = "X-Gap-Ns" THEN "x-gap-ns" ELSE name

\* absl::StrCat of an unsigned number: its decimal digits, most significant first
DigitChars == <<"0", "1", "2", "3", "4", "5", "6", "7", "8", "9">>

RECURSIVE StrCat(_)
StrCat(number) ==
    IF number < 10 THEN << DigitChars[number + 1] >>
    ELSE Append(StrCat(number \div 10), DigitChars[(number % 10) + 1])

\* variant: the header is also written when no time has elapsed
encodeHeaders_zero(effective_config, last_request_delta_ns, response_headers) ==
    IF effective_config.ok
    THEN LET previous_request_delta_in_response_header ==
                 effective_config.value.emit_previous_request_delta_in_response_header
         IN  IF previous_request_delta_in_response_header # "" /\ last_request_delta_ns >= 0
             THEN Append(response_headers,
                         [name |-> LowerCaseString(previous_request_delta_in_response_header),
                          value |-> StrCat(last_request_delta_ns)])
             ELSE response_headers
    ELSE response_headers

\* HttpTimeTrackingFilter::encodeHeaders(response_headers, end_stream): the
\* response headers after the call
encodeHeaders(effective_config, last_request_delta_ns, response_headers) ==
    IF effective_config.ok
    THEN LET previous_request_delta_in_response_header ==
                 effective_config.value.emit_previous_request_delta_in_response_header
         IN  IF previous_request_delta_in_response_header # "" /\ last_request_delta_ns > 0
             THEN Append(response_headers,
                         [name |-> LowerCaseString(previous_request_delta_in_response_header),
                          value |-> StrCat(last_request_delta_ns)])
             ELSE response_headers
    ELSE response_headers

\* the response headers of request r pass the filter
TrackingEncodeHeaders(r) ==
    LET f == tracking_filters[r]
    IN  /\ f.pc \in {"ready", "headers", "complete"}
        /\ ~f.encoded
        /\ tracking_filters' =
             [tracking_filters EXCEPT ![r].encoded = TRUE,
                                      ![r].response_headers =
                                          encodeHeaders(f.effective_config_,
                                                        f.last_request_delta_ns_,
                                                        f.response_headers)]
        /\ UNCHANGED <<server_config_, instances, delay_filters, resolve_call, delay_call,
                       now, stopwatch_, stopwatch_calls, fault_call>>

TrackingTick == TickUpTo(MaxGapTicks)

NextTracking ==
    \/ TrackingTick
    \/ \E r \in Requests :
           \* the requests are numbered in the order their callbacks are set
           /\ \A earlier \in 1..(r - 1) : tracking_filters[earlier].pc # "constructed"
           /\ setDecoderFilterCallbacks(r)
    \/ \E r \in Requests, headers \in TrackingHeaderLists, end_stream \in BOOLEAN :
           TrackingDecodeHeaders(r, headers, end_stream)
    \/ \E r \in Requests, end_stream \in BOOLEAN : TrackingDecodeData(r, end_stream)
    \/ \E r \in Requests : TrackingEncodeHeaders(r)

SpecTimeTracking == InitTracking /\ [][NextTracking]_vars

(***************************************************************************)
(* Calls of computeEffectiveConfiguration on a configuration object, for   *)
(* every base configuration and every list of override header values.      *)
(***************************************************************************)
InitResolve ==
    /\ \E base \in Bases :
         server_config_ = [c \in Configs \cup {TrackingConfig} |-> base]
    /\ instances = [cell \in Cells |-> 0]
    /\ delay_filters = [r \in Requests |-> NoDelayFilter]
    /\ tracking_filters = [r \in Requests |-> NoTrackingFilter]
    /\ resolve_call = IdleResolve
    /\ delay_call = IdleDelay
    /\ InitClock

CallComputeEffectiveConfiguration(headers) ==
    /\ resolve_call' =
         [pc |-> "returned", base |-> server_config_["A"], headers |-> headers,
          result |-> <<computeEffectiveConfiguration(server_config_["A"], headers)>>]
    /\ server_config_' =
         [server_config_ EXCEPT !["A"] = computeEffectiveConfiguration_server_config(@, headers)]
    /\ UNCHANGED <<instances, delay_filters, tracking_filters, delay_call,
                     now, stopwatch_, stopwatch_calls, fault_call>>

NextResolve == \E headers \in HeaderLists : CallComputeEffectiveConfiguration(headers)

SpecResolve == InitResolve /\ [][NextResolve]_vars

(***************************************************************************)
(* Calls of computeConcurrencyBasedLinearDelayMs.                          *)
(***************************************************************************)
\* the durations (in nanoseconds) handed to the computation
Durations == { -1500000, -500000, 0, 499999, 500000, 1500000,
               10 * NsPerMs, 100 * NsPerMs }

CallComputeConcurrencyBasedLinearDelayMs(concurrency, minimal_delay, delay_factor) ==
    /\ delay_call' =
         [pc |-> "returned", concurrency |-> concurrency, minimal_delay |-> minimal_delay,
          delay_factor |-> delay_factor,
          result |-> <<computeConcurrencyBasedLinearDelayMs(
                           concurrency, minimal_delay, delay_factor)>>]
    /\ UNCHANGED <<server_config_, instances, delay_filters, tracking_filters, resolve_call,
                     now, stopwatch_, stopwatch_calls, fault_call>>

NextDelay ==
    \E concurrency \in 0..MaxConcurrency, minimal_delay \in Durations, delay_factor \in Durations :
        CallComputeConcurrencyBasedLinearDelayMs(concurrency, minimal_delay, delay_factor)

SpecDelay == InitFilters /\ [][NextDelay]_vars

(***************************************************************************)
(* Calls of computeDelayMs followed by maybeRequestFaultFilterDelay.       *)
(***************************************************************************)
\* the delay policies of the response options handed to computeDelayMs
DelayPolicies ==
    {NoDelay}
        \cup { StaticDelay(d) : d \in Durations \cup {250 * NsPerMs} }
        \cup { ConcurrencyBasedLinearDelay(m, f) : m, f \in Durations }

\* the x-envoy-fault-delay-request header as the request arrives: not there,
\* or set by the client to 0
ArrivingFaultDelayRequest == {Nullopt, Optional(0)}

CallComputeDelayMs(policy, concurrency, fault_delay_request) ==
    LET delay_ms == computeDelayMs(ResponseOptions(200, policy, ""), concurrency)
    IN  /\ fault_call' =
             [pc |-> "returned", policy |-> policy, concurrency |-> concurrency,
              delay_ms |-> delay_ms, before |-> fault_delay_request,
              after |-> maybeRequestFaultFilterDelay(delay_ms, fault_delay_request)]
        /\ UNCHANGED <<server_config_, instances, delay_filters, tracking_filters, resolve_call,
                       delay_call, now, stopwatch_, stopwatch_calls>>

NextFault ==
    \E policy \in DelayPolicies, concurrency \in 0..MaxConcurrency,
       fault_delay_request \in ArrivingFaultDelayRequest :
        CallComputeDelayMs(policy, concurrency, fault_delay_request)

SpecFault == InitFilters /\ [][NextFault]_vars

(***************************************************************************)
(* Properties.                                                             *)
(***************************************************************************)
\* the requests whose dynamic-delay filter exists and is not destroyed
InFlight == { r \in Requests : delay_filters[r].pc \in {"constructed", "headers", "complete"} }

\* an override value that parses, sets only fields of ResponseOptions and
\* sets no negative delay
WellFormed(value) ==
    /\ value.parses
    /\ DOMAIN value.members \subseteq FieldNames
    /\ "delay_policy" \in DOMAIN value.members => ValidDelayPolicy(value.members.delay_policy)

Abs(n) == IF n >= 0 THEN n ELSE -n

\* C1: the counter is incremented once when a request's filter is created and
\* decremented once when it is destroyed, on every path; so at every state the
\* count read through any configuration object is the number of requests in
\* flight (0 once every started request has completed).
C1_CounterTracksRequestsInFlight ==
    \A config \in Configs :
        approximateFilterInstances(instances, config) = Cardinality(InFlight)

\* C1 witness: every request has completed, one on the configuration error path
\* (the 500 reply was sent), one torn down before its headers were decoded, and
\* the count is back to 0.
C1_Witness ==
    /\ \A r \in Requests : delay_filters[r].pc = "destroyed"
    /\ \E r \in Requests : delay_filters[r].replies # <<>>
    /\ \E r \in Requests : delay_filters[r].status = "none"
    /\ approximateFilterInstances(instances, "A") = 0

\* C2 as stated: creating or destroying a filter of configuration object a never
\* changes the count read through another configuration object b.
C2_CounterPerConfiguration ==
    [][\A r \in Requests, a \in Configs :
          (Constructor(r, a) \/ (onDestroy(r) /\ delay_filters[r].config_ = a))
              => \A b \in Configs \ {a} :
                     approximateFilterInstances(instances', b)
                         = approximateFilterInstances(instances, b)]_vars

\* C2 amended: there is one counter for the whole process; creating a filter of
\* any configuration object raises the count read through every configuration
\* object by one, destroying it lowers the count read through every one by one.
C2_CounterShared ==
    [][\A r \in Requests :
          /\ \A a \in Configs :
                Constructor(r, a)
                    => \A b \in Configs :
                           approximateFilterInstances(instances', b)
                               = approximateFilterInstances(instances, b) + 1
          /\ onDestroy(r)
                => \A b \in Configs :
                       approximateFilterInstances(instances', b)
                           = approximateFilterInstances(instances, b) - 1]_vars

\* C2 witness: the only filter alive belongs to configuration object A and the
\* count read through configuration object B is 1.
C2_Witness ==
    /\ \E r \in Requests :
          /\ delay_filters[r].pc = "constructed"
          /\ delay_filters[r].config_ = "A"
          /\ \A other \in Requests \ {r} : delay_filters[other].pc = "unborn"
    /\ approximateFilterInstances(instances, "B") = 1

\* C3: under every interleaving of the atomic increments and decrements the
\* counter never wraps around below 0 (it never exceeds the number of requests)
\* and is exactly 0 once all N increments and N decrements are done.
C3_NoLostUpdateNoWrap ==
    /\ \A config \in Configs : approximateFilterInstances(instances, config) <= MaxRequests
    /\ (\A r \in Requests : delay_filters[r].pc = "destroyed")
           => \A config \in Configs : approximateFilterInstances(instances, config) = 0

\* C3 witness: all N filters were created and destroyed, over both
\* configuration objects, and the counter reads 0.
C3_Witness ==
    /\ \A r \in Requests : delay_filters[r].destroyed_
    /\ \E r1, r2 \in Requests : delay_filters[r1].config_ # delay_filters[r2].config_
    /\ instances["static"] = 0

\* C4: with two or more override values the result is the error whose message
\* contains "expected only one", whatever the values are.
C4_DuplicateHeaderIsError ==
    (resolve_call.pc = "returned" /\ Len(resolve_call.headers) >= 2)
        => /\ ~resolve_call.result[1].ok
           /\ resolve_call.result[1] = InvalidArgumentError(MultipleHeadersMessage)
           /\ Contains(resolve_call.result[1].message, "expected only one")

\* C4 witness: a call with two well-formed override values returned the error.
C4_Witness ==
    /\ resolve_call.pc = "returned"
    /\ Len(resolve_call.headers) = 2
    /\ \A i \in 1..2 : WellFormed(resolve_call.headers[i])
    /\ ~resolve_call.result[1].ok

\* C5: with zero override values the result is the base configuration itself.
C5_NoOverrideReturnsBase ==
    (resolve_call.pc = "returned" /\ Len(resolve_call.headers) = 0)
        => /\ resolve_call.result[1].ok
           /\ resolve_call.result[1].value = server_config_["A"]

\* C5 witness: a call without override values returned a base configuration
\* that differs from a default-constructed one.
C5_Witness ==
    /\ resolve_call.pc = "returned"
    /\ resolve_call.headers = <<>>
    /\ resolve_call.result[1].ok
    /\ resolve_call.result[1].value.delay_policy.kind = "linear"

\* C6: with exactly one well-formed override the result is the base
\* configuration with exactly the fields the override sets replaced by the
\* override's values, every other field keeping the base's value.
C6_OverrideReplacesPresentFields ==
    (/\ resolve_call.pc = "returned"
     /\ Len(resolve_call.headers) = 1
     /\ WellFormed(resolve_call.headers[1]))
        => /\ resolve_call.result[1].ok
           /\ \A field \in FieldNames :
                 resolve_call.result[1].value[field] =
                     IF field \in DOMAIN resolve_call.headers[1].members
                     THEN resolve_call.headers[1].members[field]
                     ELSE server_config_["A"][field]

\* C6 witness: base response_code 200 with the override {response_code: 429}
\* gave response_code 429 and kept the base's response-gap header name.
C6_Witness ==
    /\ resolve_call.pc = "returned"
    /\ Len(resolve_call.headers) = 1
    /\ DOMAIN resolve_call.headers[1].members = {"response_code"}
    /\ server_config_["A"].response_code = 200
    /\ server_config_["A"].emit_previous_request_delta_in_response_header = "x-gap-ns"
    /\ resolve_call.result[1].ok
    /\ resolve_call.result[1].value.response_code = 429
    /\ resolve_call.result[1].value.emit_previous_request_delta_in_response_header = "x-gap-ns"

\* C7: with exactly one override value that fails to parse or to merge the
\* result is an error carrying the merge's error message, and no configuration.
C7_MalformedOverrideIsError ==
    (/\ resolve_call.pc = "returned"
     /\ Len(resolve_call.headers) = 1
     /\ ~WellFormed(resolve_call.headers[1]))
        => /\ ~resolve_call.result[1].ok
           /\ "value" \notin DOMAIN resolve_call.result[1]
           /\ resolve_call.result[1].message # <<>>
           /\ resolve_call.result[1].message =
                  mergeJsonConfig(resolve_call.headers[1], server_config_["A"]).error_message

\* C7 witness: a call with one value that does not parse returned an error
\* whose message names that value.
C7_Witness ==
    /\ resolve_call.pc = "returned"
    /\ Len(resolve_call.headers) = 1
    /\ ~resolve_call.headers[1].parses
    /\ ~resolve_call.result[1].ok
    /\ Contains(resolve_call.result[1].message, resolve_call.headers[1].text)

\* C8: validateOrSendError sends the reply and returns true exactly when the
\* effective configuration is an error; the reply has status 500 and the body
\* "<filter-name> didn't understand the request: <error message>", the callback
\* that sent it stops the iteration, and a request whose configuration resolved
\* gets no such reply.
C8_ErrorReply ==
    \A r \in Requests :
        LET f == tracking_filters[r]
        IN  /\ f.validated => (f.sent <=> ~f.effective_config_.ok)
            /\ f.sent
                 => /\ f.replies =
                         << [code |-> 500,
                             body |-> <<"time-tracking", " didn't understand the request: ">>
                                          \o f.effective_config_.message] >>
                    /\ f.status \in {"StopIteration", "StopIterationNoBuffer"}
            /\ ~f.sent => (f.replies = <<>> /\ f.status \in {"none", "Continue"})
            /\ f.pc = "complete" => (f.sent <=> ~f.effective_config_.ok)

\* C8 witness: one request with duplicate override headers got the 500 reply
\* while another request, whose configuration resolved, completed without one.
C8_Witness ==
    \E r1, r2 \in Requests :
        /\ tracking_filters[r1].pc = "complete"
        /\ Len(tracking_filters[r1].headers) = 2
        /\ Len(tracking_filters[r1].replies) = 1
        /\ tracking_filters[r1].replies[1].code = 500
        /\ Contains(tracking_filters[r1].replies[1].body, "expected only one")
        /\ tracking_filters[r2].pc = "complete"
        /\ tracking_filters[r2].effective_config_.ok
        /\ tracking_filters[r2].replies = <<>>

\* the override header list makes the resolution fail
BadOverride(headers) ==
    \/ Len(headers) >= 2
    \/ (Len(headers) = 1 /\ ~WellFormed(headers[1]))

\* C9: for a request whose configuration resolution errors the delay is never
\* computed and the fault filter is never asked for a delay.
C9_NoDelayForErroredRequest ==
    \A r \in Requests :
        LET f == delay_filters[r]
        IN  (~f.effective_config_.ok \/ BadOverride(f.headers))
                => /\ ~f.computed
                   /\ f.delay_ms = Nullopt
                   /\ f.fault_delay_request = Nullopt

\* C9 witness: a request with a malformed override went through all of its
\* life, got the 500 reply and no delay, while another request of the same
\* configuration object had its delay requested.
C9_Witness ==
    \E r1, r2 \in Requests :
        /\ delay_filters[r1].pc = "destroyed"
        /\ BadOverride(delay_filters[r1].headers)
        /\ delay_filters[r1].replies # <<>>
        /\ ~delay_filters[r1].computed
        /\ delay_filters[r2].config_ = delay_filters[r1].config_
        /\ delay_filters[r2].computed
        /\ delay_filters[r2].fault_delay_request # Nullopt

\* C10: the result is (minimal_delay + concurrency * delay_factor) nanoseconds
\* expressed in milliseconds, rounded to the nearest millisecond, a tie going
\* away from zero; 100ms + 5 * 10ms gives 150ms.
C10_LinearDelayRounded ==
    delay_call.pc = "returned"
        => LET ns == delay_call.minimal_delay + delay_call.concurrency * delay_call.delay_factor
               ms == delay_call.result[1]
           IN  /\ 2 * Abs(ns - ms * NsPerMs) <= NsPerMs
               /\ 2 * Abs(ns - ms * NsPerMs) = NsPerMs => Abs(ms * NsPerMs) > Abs(ns)
               /\ (/\ delay_call.concurrency = 5
                   /\ delay_call.minimal_delay = 100 * NsPerMs
                   /\ delay_call.delay_factor = 10 * NsPerMs) => ms = 150

\* C10 witness: a tie below zero, 0.5ms + 2 * -1.5ms = -2.5ms, was rounded away
\* from zero to -3ms.
C10_Witness ==
    /\ delay_call.pc = "returned"
    /\ delay_call.minimal_delay + delay_call.concurrency * delay_call.delay_factor = -2500000
    /\ delay_call.result[1] = -3

RECURSIVE SumElapsed(_)
SumElapsed(calls) ==
    IF calls = <<>> THEN 0 ELSE calls[1].elapsed + SumElapsed(Tail(calls))

\* C13: the first call on a new stopwatch returns 0 and every later call returns
\* the time between the call before it and itself, whoever the callers are;
\* each call leaves its own time as the new reference.
C13_SequentialCalls ==
    /\ \A i \in 1..Len(stopwatch_calls) :
          stopwatch_calls[i].elapsed =
              IF i = 1 THEN 0 ELSE stopwatch_calls[i].time - stopwatch_calls[i - 1].time
    /\ stopwatch_calls # <<>>
          => /\ stopwatch_.start_ # <<>>
             /\ stopwatch_.start_[1].time = stopwatch_calls[Len(stopwatch_calls)].time

\* C13 witness: three calls at times t1 < t2 < t3, made by callers 3, 1 and 2 in
\* that order, returned 0, t2 - t1 and t3 - t2.
C13_Witness ==
    /\ Len(stopwatch_calls) = 3
    /\ stopwatch_calls[1].caller = 3 /\ stopwatch_calls[2].caller = 1
    /\ stopwatch_calls[3].caller = 2
    /\ stopwatch_calls[1].time < stopwatch_calls[2].time
    /\ stopwatch_calls[2].time < stopwatch_calls[3].time
    /\ stopwatch_calls[1].elapsed = 0
    /\ stopwatch_calls[2].elapsed = stopwatch_calls[2].time - stopwatch_calls[1].time
    /\ stopwatch_calls[3].elapsed = stopwatch_calls[3].time - stopwatch_calls[2].time
    /\ stopwatch_calls[3].elapsed > 0

\* C14: in every interleaving of the callers each call found exactly the start
\* time stored by the call made just before it (none for the first), so no two
\* calls used the same stored start time, no stored time was skipped, and the
\* elapsed times of all calls add up to the time between the first and the last.
C14_AtomicReadAndReset ==
    /\ \A i \in 1..Len(stopwatch_calls) :
          IF i = 1 THEN stopwatch_calls[i].previous = <<>>
          ELSE /\ stopwatch_calls[i].previous # <<>>
               /\ stopwatch_calls[i].previous[1].by = stopwatch_calls[i - 1].caller
               /\ stopwatch_calls[i].previous[1].time = stopwatch_calls[i - 1].time
    /\ \A i, j \in 1..Len(stopwatch_calls) :
          i # j => stopwatch_calls[i].previous # stopwatch_calls[j].previous
    /\ stopwatch_calls # <<>>
          => SumElapsed(stopwatch_calls) =
                 stopwatch_calls[Len(stopwatch_calls)].time - stopwatch_calls[1].time

\* C14 witness: three callers called, two of them at the same clock reading,
\* and the elapsed times add up to the time that passed.
C14_Witness ==
    /\ Len(stopwatch_calls) = 3
    /\ stopwatch_calls[2].time = stopwatch_calls[3].time
    /\ stopwatch_calls[1].time < stopwatch_calls[2].time
    /\ SumElapsed(stopwatch_calls) = stopwatch_calls[3].time - stopwatch_calls[1].time
    /\ SumElapsed(stopwatch_calls) > 0

\* the number a decimal text stands for
RECURSIVE DecimalValue(_)
DecimalValue(text) ==
    IF text = <<>> THEN 0
    ELSE 10 * DecimalValue(SubSeq(text, 1, Len(text) - 1))
         + (CHOOSE d \in 0..9 : DigitChars[d + 1] = text[Len(text)])

\* the stopwatch call made for request r, 0 when there is none
CallOf(r) ==
    IF \E i \in 1..Len(stopwatch_calls) : stopwatch_calls[i].caller = r
    THEN CHOOSE i \in 1..Len(stopwatch_calls) : stopwatch_calls[i].caller = r
    ELSE 0

\* C12: the response-gap header is appended exactly when the request's
\* effective configuration resolved, names a non-empty header and the gap
\* measured for the request is above 0, and then holds the gap in nanoseconds
\* as decimal text; with "x-gap-ns" the first request gets no header and a
\* request 5,000,000ns later gets x-gap-ns: 5000000.
C12_ResponseGapHeader ==
    \A r \in Requests :
        LET f == tracking_filters[r]
            named == /\ f.effective_config_.ok
                     /\ f.effective_config_.value.emit_previous_request_delta_in_response_header # ""
        IN  /\ ~f.encoded => f.response_headers = <<>>
            /\ (f.encoded /\ named /\ f.last_request_delta_ns_ > 0)
                   => /\ Len(f.response_headers) = 1
                      /\ f.response_headers[1].name = "x-gap-ns"
                      /\ f.response_headers[1].value[1] # "0"
                      /\ DecimalValue(f.response_headers[1].value) = f.last_request_delta_ns_
            /\ (f.encoded /\ ~(named /\ f.last_request_delta_ns_ > 0))
                   => f.response_headers = <<>>
            /\ (f.encoded /\ named /\ CallOf(r) = 1) => f.response_headers = <<>>
            /\ (/\ f.encoded /\ named /\ CallOf(r) = 2
                /\ stopwatch_calls[2].time - stopwatch_calls[1].time = 5000000)
                   => f.response_headers =
                          << [name |-> "x-gap-ns", value |-> <<"5", "0", "0", "0", "0", "0", "0">>] >>

\* C12 witness: with "x-gap-ns" configured the first request's response went
\* out without the header and the response of the second request, which came
\* 5,000,000ns later, carries x-gap-ns: 5000000.
C12_Witness ==
    \E r1, r2 \in Requests :
        /\ server_config_[TrackingConfig].emit_previous_request_delta_in_response_header = "x-gap-ns"
        /\ CallOf(r1) = 1 /\ CallOf(r2) = 2
        /\ tracking_filters[r1].encoded /\ tracking_filters[r1].effective_config_.ok
        /\ tracking_filters[r1].response_headers = <<>>
        /\ tracking_filters[r2].encoded
        /\ tracking_filters[r2].last_request_delta_ns_ = 5000000
        /\ tracking_filters[r2].response_headers =
               << [name |-> "x-gap-ns", value |-> <<"5", "0", "0", "0", "0", "0", "0">>] >>

\* C19: for a request whose override is invalid the 500 reply is sent once, by
\* the first callback that sees the end of the stream, and that callback stops
\* the iteration; the callbacks before it send nothing and return Continue; no
\* request ever gets a second reply.
C19_DeferredErrorReply ==
    \A r \in Requests :
        LET f == tracking_filters[r]
        IN  /\ Len(f.replies) <= 1
            /\ (f.pc = "headers" /\ ~f.effective_config_.ok)
                   => (f.replies = <<>> /\ f.status = "Continue")
            /\ (f.pc = "complete" /\ ~f.effective_config_.ok)
                   => /\ Len(f.replies) = 1
                      /\ f.replies[1].code = 500
                      /\ f.status \in {"StopIteration", "StopIterationNoBuffer"}
            /\ f.status = "StopIteration" => (f.headers # <<>> /\ f.pc = "complete")
            /\ f.replies # <<>> => f.pc = "complete"

\* C19 witness: a request with an unparsable override and a body got its one
\* 500 reply from the decodeData call that ended the stream.
C19_Witness ==
    \E r \in Requests :
        /\ tracking_filters[r].pc = "complete"
        /\ Len(tracking_filters[r].headers) = 1
        /\ ~tracking_filters[r].headers[1].parses
        /\ tracking_filters[r].status = "StopIterationNoBuffer"
        /\ Len(tracking_filters[r].replies) = 1

\* C20: the stopwatch is read and reset once per request, when the decoder
\* callbacks are set and whatever becomes of the request afterwards; the gap
\* kept by a request is the time since the request just before it, of any kind,
\* and stays what it was when measured.
C20_GapMeasuredOncePerRequest ==
    /\ \A r \in Requests :
          Cardinality({ i \in 1..Len(stopwatch_calls) : stopwatch_calls[i].caller = r })
              = IF tracking_filters[r].pc = "constructed" THEN 0 ELSE 1
    /\ \A i \in 1..Len(stopwatch_calls) :
          /\ tracking_filters[stopwatch_calls[i].caller].last_request_delta_ns_
                 = IF i = 1 THEN 0 ELSE stopwatch_calls[i].time - stopwatch_calls[i - 1].time
          /\ i > 1 => stopwatch_calls[i].previous[1].by = stopwatch_calls[i - 1].caller
    /\ stopwatch_calls # <<>>
          => stopwatch_.start_[1].by = stopwatch_calls[Len(stopwatch_calls)].caller

\* C20 witness: the first request carried duplicate override headers and was
\* answered with the 500 reply, no response-gap header is configured, and the
\* second request still measured the 5,000,000ns since that first request.
C20_Witness ==
    \E r1, r2 \in Requests :
        /\ server_config_[TrackingConfig].emit_previous_request_delta_in_response_header = ""
        /\ CallOf(r1) = 1 /\ CallOf(r2) = 2
        /\ tracking_filters[r1].replies # <<>>
        /\ Len(tracking_filters[r1].headers) = 2
        /\ tracking_filters[r2].pc = "complete"
        /\ tracking_filters[r2].last_request_delta_ns_ = 5000000

\* C18: resolving never changes the configuration held by a configuration
\* object: whatever overrides the requests carry, every request resolves
\* against the configuration the object was constructed with, so a request
\* without override gets exactly that configuration and no request sees the
\* override of another.
C18_BaseConfigurationUnchanged ==
    /\ server_config_ = InitialServerConfig
    /\ \A r \in Requests :
          LET f == delay_filters[r]
          IN  f.status # "none"
                  => /\ f.effective_config_ =
                            computeEffectiveConfiguration(InitialServerConfig[f.config_], f.headers)
                     /\ f.headers = <<>>
                            => f.effective_config_ = OkStatus(InitialServerConfig[f.config_])

\* C18 witness: on one configuration object a request overrode response_code
\* with 429 and a request without override resolved to the configured
\* response_code 503.
C18_Witness ==
    \E r1, r2 \in Requests :
        /\ delay_filters[r1].config_ = "A" /\ delay_filters[r2].config_ = "A"
        /\ delay_filters[r1].effective_config_.ok
        /\ delay_filters[r1].effective_config_.value.response_code = 429
        /\ delay_filters[r2].status # "none"
        /\ delay_filters[r2].headers = <<>>
        /\ delay_filters[r2].effective_config_.ok
        /\ delay_filters[r2].effective_config_.value.response_code = 503

\* C15: the fault filter is instructed (the request header
\* x-envoy-fault-delay-request is set to the delay) exactly when the computed
\* delay is set and greater than 0; when the delay is not set, zero or
\* negative the request headers are left as they arrived.
C15_FaultFilterOnlyForPositiveDelay ==
    fault_call.pc = "returned"
        => IF has_value(fault_call.delay_ms) /\ fault_call.delay_ms[1] > 0
           THEN /\ fault_call.after = Optional(fault_call.delay_ms[1])
                /\ fault_call.after # fault_call.before
           ELSE fault_call.after = fault_call.before

\* C15 witness: a static delay of zero was computed for a request that
\* arrived without the header, and the header is still absent.
C15_Witness ==
    /\ fault_call.pc = "returned"
    /\ fault_call.policy = StaticDelay(0)
    /\ fault_call.delay_ms = Optional(0)
    /\ fault_call.before = Nullopt
    /\ fault_call.after = Nullopt

\* C16: with a static delay d the computed delay is d (in whole
\* milliseconds) whatever the number of active requests.
C16_StaticDelayIgnoresConcurrency ==
    (fault_call.pc = "returned" /\ fault_call.policy.kind = "static")
        => /\ has_value(fault_call.delay_ms)
           /\ Abs(fault_call.policy.static_delay - fault_call.delay_ms[1] * NsPerMs) < NsPerMs
           /\ fault_call.policy.static_delay % NsPerMs = 0
                  => fault_call.delay_ms[1] * NsPerMs = fault_call.policy.static_delay

\* C16 witness: a static delay of 250ms computed with the greatest number of
\* active requests gave 250.
C16_Witness ==
    /\ fault_call.pc = "returned"
    /\ fault_call.policy = StaticDelay(250 * NsPerMs)
    /\ fault_call.concurrency = MaxConcurrency
    /\ fault_call.delay_ms = Optional(250)

\* the arrived requests whose dynamic-delay filter exists and is not destroyed
InFlightArrivals ==
    { r \in Arrivals : delay_filters[r].pc \in {"constructed", "headers", "complete"} }

\* this step is decodeHeaders of request r computing its delay
ComputesDelay(r) ==
    /\ delay_filters[r].pc = "constructed"
    /\ ~delay_filters[r].computed
    /\ delay_filters'[r].computed

\* C11 as stated: with minimal delay 0 and factor 1ms, a request whose delay
\* is computed while three other requests are in flight (its own increment
\* already made) gets 3ms.
C11_FourthRequestGetsThreeMs ==
    [][\A r \in Arrivals :
          (ComputesDelay(r) /\ Cardinality(InFlightArrivals \ {r}) = 3)
              => delay_filters'[r].delay_ms = Optional(3)]_vars

\* C11 amended: the count read after the request's own increment includes the
\* request itself, so with minimal delay 0 and factor 1ms the delay in
\* milliseconds is one more than the number of other requests in flight: a
\* fourth request arriving while three are in flight gets 4ms, and that is
\* what the fault filter is asked for.
C11_FourthRequestGetsFourMs ==
    [][\A r \in Arrivals :
          ComputesDelay(r)
              => /\ delay_filters'[r].delay_ms =
                        Optional(1 + Cardinality(InFlightArrivals \ {r}))
                 /\ delay_filters'[r].fault_delay_request = delay_filters'[r].delay_ms
                 /\ Cardinality(InFlightArrivals \ {r}) = 3
                        => delay_filters'[r].delay_ms = Optional(4)]_vars

\* C11 witness: four requests are in flight, the counter reads 4 and one of
\* them has been given the delay of 4ms.
C11_Witness ==
    /\ Cardinality(InFlightArrivals) = 4
    /\ approximateFilterInstances(instances, "A") = 4
    /\ \E r \in InFlightArrivals :
          /\ delay_filters[r].computed
          /\ delay_filters[r].delay_ms = Optional(4)
          /\ delay_filters[r].fault_delay_request = Optional(4)

\* the request carries one override that parses and sets a negative delay
NegativeDelayOverride(headers) ==
    /\ Len(headers) = 1
    /\ headers[1].parses
    /\ "delay_policy" \in DOMAIN headers[1].members
    /\ ~ValidDelayPolicy(headers[1].members.delay_policy)

====
